---- MODULE Spec2Model ----
(***************************************************************************)
(* Model of ormodels.py (OpenRouter Models Browser).                       *)
(*                                                                         *)
(* A Python str is a sequence of characters: the ASCII characters and a    *)
(* few above U+007F (letters with a lower case of one and of two           *)
(* characters, the capital sigma, white space, decimal digits).  A Python  *)
(* int is a sign and its decimal digits, of any length; a Python float is  *)
(* an IEEE 754 double: sign, 53-bit significand and binary exponent, or    *)
(* an infinity or nan.  A value parsed from the JSON body is a tagged      *)
(* record: null, bool, int, float, str, dict (a function from key names    *)
(* to values) or list.  A call that can raise returns                      *)
(* [raised |-> FALSE, value |-> _] or [raised |-> TRUE, exc |-> _].  The   *)
(* interpreter is CPython 3.11 on Linux with glibc (64-bit time_t, %Y      *)
(* without padding, at most 4300 digits converted between int and str);    *)
(* the local time zone is a fixed offset from UTC, and the output streams  *)
(* encode every character.  A run of main() starts at the command line,    *)
(* which argparse reads before anything else.                              *)
(***************************************************************************)
EXTENDS Integers, Sequences, FiniteSets, TLC

VARIABLES
    pc,           \* position of main(): "parse", "start", "fetch", "probe", "collect", "report", "exited"
    argv,         \* sys.argv[1:], the words of the command line
    args_query,   \* args.query, the list of query strings; empty before parse_args()
    catalog,      \* the value the API holds under "data"
    models,       \* the value returned by fetch_models()
    requests,     \* number of requests.get calls made
    response,     \* what the request did: NoReply before it, then one of Replies
    stdout,       \* what was printed to standard output, in order
    stderr,       \* what was printed to standard error, in order
    exit_code,    \* -1 while running, then the process exit status
    qi,           \* index of the next query of the collection loop
    seen_ids,     \* seen_ids of main()
    all_matches,  \* all_matches of main(), as positions in models
    shown,        \* the dict print_full_model() worked on, after its pops
    arg,          \* input of a directly applied function
    ret,          \* its result
    called        \* its name, "none" before the call

vars == <<pc, argv, args_query, catalog, models, requests, response, stdout, stderr, exit_code,
          qi, seen_ids, all_matches, shown, arg, ret, called>>

(***************************************************************************)
(* Bounds                                                                  *)
(***************************************************************************)
MaxCatalog == 2
MaxArgs == 2
MaxTokens == 2100
MaxSearchRecords == 2

\* a value under a local name: Op applied to v
With(v, Op(_)) == Op(v)

(***************************************************************************)
(* Strings                                                                 *)
(***************************************************************************)
\* a character that cannot be written in a string of this module is the
\* token of its code point
Char ==
    [VT |-> "U+000B",
     FS |-> "U+001C",
     GS |-> "U+001D",
     RS |-> "U+001E",
     US |-> "U+001F",
     GRAVE_ACCENT |-> "U+0060",
     NO_BREAK_SPACE |-> "U+00A0",
     IDEOGRAPHIC_SPACE |-> "U+3000",
     LATIN_CAPITAL_E_ACUTE |-> "U+00C9",
     LATIN_SMALL_E_ACUTE |-> "U+00E9",
     LATIN_CAPITAL_N_TILDE |-> "U+00D1",
     LATIN_SMALL_N_TILDE |-> "U+00F1",
     LATIN_CAPITAL_I_DOT_ABOVE |-> "U+0130",
     COMBINING_DOT_ABOVE |-> "U+0307",
     GREEK_CAPITAL_SIGMA |-> "U+03A3",
     GREEK_SMALL_SIGMA |-> "U+03C3",
     GREEK_SMALL_FINAL_SIGMA |-> "U+03C2",
     ARABIC_INDIC_DIGIT_THREE |-> "U+0663",
     FULLWIDTH_DIGIT_ONE |-> "U+FF11"]

\* the characters of the model above U+007F
NonAscii ==
    {Char.NO_BREAK_SPACE, Char.IDEOGRAPHIC_SPACE, Char.LATIN_CAPITAL_E_ACUTE, Char.LATIN_SMALL_E_ACUTE,
     Char.LATIN_CAPITAL_N_TILDE, Char.LATIN_SMALL_N_TILDE, Char.LATIN_CAPITAL_I_DOT_ABOVE,
     Char.COMBINING_DOT_ABOVE, Char.GREEK_CAPITAL_SIGMA, Char.GREEK_SMALL_SIGMA,
     Char.GREEK_SMALL_FINAL_SIGMA, Char.ARABIC_INDIC_DIGIT_THREE, Char.FULLWIDTH_DIGIT_ONE}
IsAscii(c) == c \notin NonAscii

UpperChars == <<"A","B","C","D","E","F","G","H","I","J","K","L","M",
                "N","O","P","Q","R","S","T","U","V","W","X","Y","Z">>
LowerChars == <<"a","b","c","d","e","f","g","h","i","j","k","l","m",
                "n","o","p","q","r","s","t","u","v","w","x","y","z">>

\* the lower case of the capitals outside A-Z, one or two characters
SpecialLower ==
    (Char.LATIN_CAPITAL_E_ACUTE :> <<Char.LATIN_SMALL_E_ACUTE>>)
    @@ (Char.LATIN_CAPITAL_N_TILDE :> <<Char.LATIN_SMALL_N_TILDE>>)
    @@ (Char.LATIN_CAPITAL_I_DOT_ABOVE :> <<"i", Char.COMBINING_DOT_ABOVE>>)

\* the characters with a letter case, and those a letter case looks through
Cased ==
    {UpperChars[i] : i \in 1..26} \cup {LowerChars[i] : i \in 1..26}
    \cup {Char.LATIN_CAPITAL_E_ACUTE, Char.LATIN_SMALL_E_ACUTE, Char.LATIN_CAPITAL_N_TILDE,
          Char.LATIN_SMALL_N_TILDE, Char.LATIN_CAPITAL_I_DOT_ABOVE, Char.GREEK_CAPITAL_SIGMA,
          Char.GREEK_SMALL_SIGMA, Char.GREEK_SMALL_FINAL_SIGMA}
CaseIgnorable == {"'", ".", ":", "^", Char.GRAVE_ACCENT, Char.COMBINING_DOT_ABOVE}

\* the lower case of the capital sigma at position i: the final form after
\* a cased character and not before one, case-ignorable characters skipped
handle_capital_sigma(s, i) ==
    LET before == {j \in 1..(i - 1) : s[j] \notin CaseIgnorable}
        after == {j \in (i + 1)..Len(s) : s[j] \notin CaseIgnorable}
        final == /\ before # {}
                 /\ s[CHOOSE j \in before : \A k \in before : j >= k] \in Cased
                 /\ \/ after = {}
                    \/ s[CHOOSE j \in after : \A k \in after : j <= k] \notin Cased
    IN  IF final THEN Char.GREEK_SMALL_FINAL_SIGMA ELSE Char.GREEK_SMALL_SIGMA

\* the lower case of one character that is no capital sigma
LowerChar(c) ==
    IF \E i \in 1..26 : UpperChars[i] = c
    THEN <<LowerChars[CHOOSE i \in 1..26 : UpperChars[i] = c]>>
    ELSE IF c \in DOMAIN SpecialLower THEN SpecialLower[c]
    ELSE <<c>>

RECURSIVE LowerFrom(_, _)
LowerFrom(s, i) ==
    IF i > Len(s) THEN <<>>
    ELSE (IF s[i] = Char.GREEK_CAPITAL_SIGMA THEN <<handle_capital_sigma(s, i)>>
          ELSE LowerChar(s[i]))
         \o LowerFrom(s, i + 1)

\* str.lower()
Lower(s) == LowerFrom(s, 1)

\* the `in` operator on two strings
Contains(sub, s) ==
    \E i \in 0..(Len(s) - Len(sub)) : SubSeq(s, i + 1, i + Len(sub)) = sub

\* the white space of isspace() in C, which int() and float() skip at both
\* ends
NumberSpaces == {" ", "\t", "\n", "\r", "\f", Char.VT}

\* str.isspace(): the white space of str.strip() and of \s in a pattern
Spaces == NumberSpaces \cup {Char.FS, Char.GS, Char.RS, Char.US, Char.NO_BREAK_SPACE, Char.IDEOGRAPHIC_SPACE}
IsSpace(c) == c \in Spaces

\* s without the characters of the set at both ends
StripSet(s, set) ==
    LET kept == {i \in 1..Len(s) : s[i] \notin set}
    IN  IF kept = {} THEN <<>>
        ELSE SubSeq(s, CHOOSE i \in kept : \A j \in kept : i <= j,
                       CHOOSE i \in kept : \A j \in kept : i >= j)

\* str.strip()
Strip(s) == StripSet(s, Spaces)

DigitChars == <<"0","1","2","3","4","5","6","7","8","9">>
IsDigit(c) == \E i \in 1..10 : DigitChars[i] = c
DigitOf == [c \in {DigitChars[i] : i \in 1..10} |-> (CHOOSE i \in 1..10 : DigitChars[i] = c) - 1]
DigitVal(c) == DigitOf[c]

RECURSIVE NatDigits(_)
NatDigits(n) ==
    IF n < 10 THEN <<DigitChars[n + 1]>>
    ELSE NatDigits(n \div 10) \o <<DigitChars[(n % 10) + 1]>>

\* str(n) / f"{n}" of a small int
IntText(n) == IF n < 0 THEN <<"-">> \o NatDigits(0 - n) ELSE NatDigits(n)

\* zero padded decimal, as strftime's %m and %d and the digits of .2f
RECURSIVE Pad(_, _)
Pad(s, width) == IF Len(s) >= width THEN s ELSE Pad(<<"0">> \o s, width)

\* the number a short digit string denotes
RECURSIVE DigitsVal(_)
DigitsVal(s) ==
    IF Len(s) = 0 THEN 0
    ELSE 10 * DigitsVal(SubSeq(s, 1, Len(s) - 1)) + DigitVal(s[Len(s)])

AllDigits(s) == \A i \in 1..Len(s) : IsDigit(s[i])

\* the decimal digits outside ASCII and their values
DecimalOf == (Char.ARABIC_INDIC_DIGIT_THREE :> 3) @@ (Char.FULLWIDTH_DIGIT_ONE :> 1)

\* the text int() and float() parse of a str: an ASCII str as it is; of
\* another, every white space above U+007F as a blank and every decimal
\* digit above it as its ASCII digit, up to the first other character above
\* it, which is a "?" that ends the text
TransformDecimalAndSpaceToASCII(s) ==
    IF \A i \in 1..Len(s) : IsAscii(s[i]) THEN s
    ELSE LET bad == {i \in 1..Len(s) :
                        ~IsAscii(s[i]) /\ ~IsSpace(s[i]) /\ s[i] \notin DOMAIN DecimalOf}
             n == IF bad = {} THEN Len(s) ELSE CHOOSE i \in bad : \A j \in bad : i <= j
         IN  [i \in 1..n |->
                 IF IsAscii(s[i]) THEN s[i]
                 ELSE IF IsSpace(s[i]) THEN " "
                 ELSE IF s[i] \in DOMAIN DecimalOf THEN DigitChars[DecimalOf[s[i]] + 1]
                 ELSE "?"]

NA == <<"N","/","A">>

(***************************************************************************)
(* Natural numbers of any length, as decimal digits without leading zeros  *)
(***************************************************************************)
Zero == <<"0">>

StripZeros(d) ==
    LET nz == {i \in 1..Len(d) : d[i] # "0"}
    IN  IF nz = {} THEN Zero
        ELSE SubSeq(d, CHOOSE i \in nz : \A j \in nz : i <= j, Len(d))

Odd(d) == DigitVal(d[Len(d)]) % 2 = 1

\* -1, 0 or 1 as a is below, equal to or above b
CmpNat(a, b) ==
    IF Len(a) # Len(b) THEN (IF Len(a) < Len(b) THEN -1 ELSE 1)
    ELSE LET diff == {i \in 1..Len(a) : a[i] # b[i]}
         IN  IF diff = {} THEN 0
             ELSE LET i == CHOOSE x \in diff : \A y \in diff : x <= y
                  IN  IF DigitVal(a[i]) < DigitVal(b[i]) THEN -1 ELSE 1

\* n zeros, none for an n below 1
Zeros(n) == [i \in 1..(IF n > 0 THEN n ELSE 0) |-> "0"]

\* d + 1
Succ(d) ==
    LET low == {i \in 1..Len(d) : d[i] # "9"}
    IN  IF low = {} THEN <<"1">> \o Zeros(Len(d))
        ELSE LET j == CHOOSE i \in low : \A k \in low : i >= k
             IN  SubSeq(d, 1, j - 1) \o <<DigitChars[DigitVal(d[j]) + 2]>>
                 \o Zeros(Len(d) - j)

\* a natural number as base-1000 limbs, the least significant first
ToLimbs(d) ==
    LET at(i) == IF i >= 1 THEN DigitVal(d[i]) ELSE 0
    IN  <<>> \o [k \in 1..((Len(d) + 2) \div 3) |->
                    LET u == Len(d) - 3 * (k - 1)
                    IN  at(u) + 10 * at(u - 1) + 100 * at(u - 2)]

FromLimbs(l) ==
    StripZeros(<<"0">> \o [i \in 1..(3 * Len(l)) |->
        LET limb == l[Len(l) - ((i - 1) \div 3)]
            j == (i - 1) % 3
        IN  DigitChars[(IF j = 0 THEN limb \div 100
                        ELSE IF j = 1 THEN (limb \div 10) % 10
                        ELSE limb % 10) + 1]])

\* the sum over i in lo..hi of a[i] * b[k - i + 1]
RECURSIVE SumProd(_, _, _, _, _)
SumProd(a, b, k, lo, hi) ==
    IF lo = hi THEN a[lo] * b[k - lo + 1]
    ELSE LET half == (lo + hi) \div 2
         IN  SumProd(a, b, k, lo, half) + SumProd(a, b, k, half + 1, hi)

\* the columns of the long multiplication of two limb sequences
Columns(a, b) ==
    <<>> \o [k \in 1..(Len(a) + Len(b)) |->
                LET lo == IF k - Len(b) + 1 > 1 THEN k - Len(b) + 1 ELSE 1
                    hi == IF k < Len(a) THEN k ELSE Len(a)
                IN  IF lo > hi THEN 0 ELSE SumProd(a, b, k, lo, hi)]

\* the columns with their carries moved up, each limb below 1000
Carried(c) ==
    LET at(s, k) == IF k >= 1 THEN s[k] ELSE 0
        carry(s2, k) ==
            IF k = 1 THEN 0
            ELSE IF s2[k - 1] # 999 THEN (IF s2[k - 1] >= 1000 THEN 1 ELSE 0)
            ELSE LET below == {j \in 1..(k - 1) : s2[j] # 999}
                 IN  IF below = {} THEN 0
                     ELSE IF s2[CHOOSE j \in below : \A i \in below : j >= i] >= 1000
                     THEN 1 ELSE 0
    IN  With(<<>> \o [k \in 1..Len(c) |->
                         (c[k] % 1000) + ((at(c, k - 1) \div 1000) % 1000)
                         + (at(c, k - 2) \div 1000000)],
             LAMBDA s1 :
        With(<<>> \o [k \in 1..Len(c) |-> (s1[k] % 1000) + (at(s1, k - 1) \div 1000)],
             LAMBDA s2 :
        <<>> \o [k \in 1..Len(c) |-> (s2[k] + carry(s2, k)) % 1000]))

\* a * b
Mul(a, b) ==
    IF a = Zero \/ b = Zero THEN Zero
    ELSE FromLimbs(Carried(Columns(ToLimbs(a), ToLimbs(b))))

\* base^n of a small base
RECURSIVE Power(_, _)
Power(base, n) ==
    IF n <= 12 THEN NatDigits(base ^ n)
    ELSE With(Power(base, n \div 2), LAMBDA h :
              Mul(Mul(h, h), IF n % 2 = 1 THEN NatDigits(base) ELSE <<"1">>))

\* the number C * 10^p
Decimal(C, p) == [C |-> C, p |-> p]

\* D * 10^exp * 2^g as a decimal: a division by 2 is a multiplication by 5
\* and a division by 10
Scale(D, exp, g) ==
    Decimal(Mul(D, Power(IF g >= 0 THEN 2 ELSE 5, IF g >= 0 THEN g ELSE 0 - g)),
            IF g >= 0 THEN exp ELSE exp + g)

\* the digits of a decimal with a fraction, filled up in front so that a
\* digit stands before the point
Filled(x) ==
    Zeros(1 - x.p - Len(x.C)) \o x.C

\* the decimal rounded down to a whole number
Floor(x) ==
    IF x.p >= 0 THEN x.C \o Zeros(x.p)
    ELSE LET f == Filled(x)
         IN  StripZeros(SubSeq(f, 1, Len(f) + x.p))

\* the decimal rounded to the nearest whole number, a tie to the even one
RoundHalfEven(x) ==
    With(Floor(x), LAMBDA whole :
        IF x.p >= 0 THEN whole
        ELSE LET f == Filled(x)
                 first == DigitVal(f[Len(f) + x.p + 1])
                 rest == \E i \in (Len(f) + x.p + 2)..Len(f) : f[i] # "0"
             IN  IF first > 5 \/ (first = 5 /\ (rest \/ Odd(whole)))
                 THEN (IF whole = Zero THEN <<"1">> ELSE Succ(whole))
                 ELSE whole)

\* long division of the digits d by a small k, entered with the remainder
\* rem of the digits before them: the quotient's digits and the remainder,
\* the digits taken half by half
RECURSIVE DivFrom(_, _, _)
DivFrom(d, k, rem) ==
    IF Len(d) = 1
    THEN LET v == rem * 10 + DigitVal(d[1])
         IN  [q |-> <<DigitChars[(v \div k) + 1]>>, r |-> v % k]
    ELSE LET half == Len(d) \div 2
             high == DivFrom(SubSeq(d, 1, half), k, rem)
             low == DivFrom(SubSeq(d, half + 1, Len(d)), k, high.r)
         IN  [q |-> high.q \o low.q, r |-> low.r]

\* quotient and remainder of d by a small k
DivSmall(d, k) ==
    With(DivFrom(d, k, 0), LAMBDA r : [q |-> StripZeros(r.q), r |-> r.r])

(***************************************************************************)
(* Python int                                                              *)
(***************************************************************************)
\* an int of any size: sign and magnitude
Integer(neg, digits) == [t |-> "int", neg |-> neg, digits |-> digits]

\* the most digits int() reads from a str and str() writes of an int
\* (sys.int_info.default_max_str_digits); beyond it both raise ValueError
MaxStrDigits == 4300

\* n // k for a small k > 0: the quotient rounded down
FloorDiv(n, k) ==
    With(DivSmall(n.digits, k), LAMBDA d :
        Integer(n.neg /\ (d.r # 0 \/ d.q # Zero),
                IF n.neg /\ d.r # 0 THEN Succ(d.q) ELSE d.q))

\* digits with single underscores between them only
Grouped(s) ==
    /\ Len(s) > 0
    /\ \A i \in 1..Len(s) :
         \/ IsDigit(s[i])
         \/ s[i] = "_" /\ i > 1 /\ i < Len(s) /\ IsDigit(s[i - 1]) /\ IsDigit(s[i + 1])

\* int(s) of a str: white space at both ends, an optional sign, and decimal
\* digits that single underscores may group; anything else, and more than
\* MaxStrDigits digits, is a ValueError, for which [ok |-> FALSE] stands
ParseInt(s) ==
    With(StripSet(TransformDecimalAndSpaceToASCII(s), NumberSpaces), LAMBDA body :
        LET signed == Len(body) > 0 /\ body[1] \in {"-", "+"}
            num == IF signed THEN Tail(body) ELSE body
        IN  With(SelectSeq(num, IsDigit), LAMBDA written :
            With(StripZeros(written), LAMBDA digits :
                IF ~Grouped(num) \/ Len(written) > MaxStrDigits THEN [ok |-> FALSE]
                ELSE [ok |-> TRUE, neg |-> signed /\ body[1] = "-" /\ digits # Zero,
                      digits |-> digits])))

(***************************************************************************)
(* Python float                                                            *)
(***************************************************************************)
Pow2_52 == <<"4","5","0","3","5","9","9","6","2","7","3","7","0","4","9","6">>
Pow2_53 == <<"9","0","0","7","1","9","9","2","5","4","7","4","0","9","9","2">>

\* the magnitude m * 2^e of a double, with m below 2^53 and e from -1074 to
\* 971, and the two that are no numbers
Finite(m, e) == [kind |-> "finite", m |-> m, e |-> e]
Infinite == [kind |-> "inf", m |-> Zero, e |-> 0]
NotANumber == [kind |-> "nan", m |-> Zero, e |-> 0]

\* a float: a magnitude with its sign
Float(neg, x) == [kind |-> x.kind, neg |-> neg, m |-> x.m, e |-> x.e]

\* the binary exponent of the double nearest to D * 10^exp * 2^b before
\* rounding: the largest of c, c - 1, ... that leaves 53 bits before the
\* point, and never below -1074
RECURSIVE PickExponent(_, _, _, _)
PickExponent(D, exp, b, c) ==
    IF c <= -1074 THEN -1074
    ELSE IF CmpNat(Floor(Scale(D, exp, b - c)), Pow2_52) >= 0 THEN c
    ELSE PickExponent(D, exp, b, c - 1)

\* the double nearest to D * 10^exp * 2^b for D above zero, ties to even;
\* above the largest double it is infinity
ToBinary(D, exp, b) ==
    LET L == Len(D) + exp
        lg == (((L - 1) * 3321928) \div 1000000) + b - 1
    IN  IF L > 700 THEN Infinite
        ELSE IF L < -700 THEN Finite(Zero, 0)
        ELSE IF lg > 1024 THEN Infinite
        ELSE IF lg < -1082 THEN Finite(Zero, 0)
        ELSE With(PickExponent(D, exp, b, lg + 5 - 52), LAMBDA e :
             With(RoundHalfEven(Scale(D, exp, b - e)), LAMBDA m :
             With([m |-> IF m = Pow2_53 THEN Pow2_52 ELSE m,
                   e |-> IF m = Pow2_53 THEN e + 1 ELSE e], LAMBDA r :
                 IF r.m = Zero THEN Finite(Zero, 0)
                 ELSE IF r.e > 971 THEN Infinite
                 ELSE Finite(r.m, r.e))))

\* the double nearest to digits * 10^exp
ToDouble(digits, exp) ==
    LET D == StripZeros(digits)
    IN  IF D = Zero THEN Finite(Zero, 0) ELSE ToBinary(D, exp, 0)

\* x * 1_000_000 of a float
TimesMillion(x) ==
    IF x.kind # "finite" \/ x.m = Zero THEN x
    ELSE Float(x.neg, ToBinary(x.m, 6, x.e))

\* float(s) of a str as sign, decimal digits and decimal exponent, or inf or
\* nan, before it is rounded to a double: white space at both ends, an
\* optional sign, then inf, infinity or nan in any letter case, or digits
\* with at most one point and an optional exponent, single underscores
\* between digits allowed; anything else is a ValueError
ParseFloat(s) ==
    With(StripSet(TransformDecimalAndSpaceToASCII(s), NumberSpaces), LAMBDA body :
    With(SelectSeq(body, LAMBDA c : c # "_"), LAMBDA text :
    With(Lower(IF Len(text) > 0 /\ text[1] \in {"-", "+"} THEN Tail(text) ELSE text),
         LAMBDA num :
    LET grouped == \A i \in 1..Len(body) :
                      body[i] = "_" => /\ i > 1 /\ i < Len(body)
                                       /\ IsDigit(body[i - 1]) /\ IsDigit(body[i + 1])
        neg == Len(text) > 0 /\ text[1] = "-"
        es == {i \in 1..Len(num) : num[i] = "e"}
        epos == IF es = {} THEN Len(num) + 1 ELSE CHOOSE i \in es : \A j \in es : i <= j
        mant == SubSeq(num, 1, epos - 1)
        expo == SubSeq(num, epos + 1, Len(num))
        esigned == Len(expo) > 0 /\ expo[1] \in {"-", "+"}
        edigits == IF esigned THEN Tail(expo) ELSE expo
        dots == {i \in 1..Len(mant) : mant[i] = "."}
        dot == IF dots = {} THEN Len(mant) + 1 ELSE CHOOSE i \in dots : \A j \in dots : i <= j
        whole == SubSeq(mant, 1, dot - 1)
        frac == SubSeq(mant, dot + 1, Len(mant))
        e10 == IF es = {} THEN 0
               ELSE LET mag == IF Len(StripZeros(edigits)) > 6 THEN 1000000
                               ELSE DigitsVal(StripZeros(edigits))
                    IN  IF esigned /\ expo[1] = "-" THEN 0 - mag ELSE mag
    IN  IF ~grouped THEN [ok |-> FALSE]
        ELSE IF num \in {<<"i","n","f">>, <<"i","n","f","i","n","i","t","y">>}
        THEN [ok |-> TRUE, kind |-> "inf", neg |-> neg, digits |-> Zero, exp |-> 0]
        ELSE IF num = <<"n","a","n">>
        THEN [ok |-> TRUE, kind |-> "nan", neg |-> neg, digits |-> Zero, exp |-> 0]
        ELSE IF \/ Len(whole) + Len(frac) = 0
                \/ ~AllDigits(whole) \/ ~AllDigits(frac)
                \/ (es # {} /\ (Len(edigits) = 0 \/ ~AllDigits(edigits)))
        THEN [ok |-> FALSE]
        ELSE [ok |-> TRUE, kind |-> "finite", neg |-> neg,
              digits |-> whole \o frac, exp |-> e10 - Len(frac)])))

\* f"{x:.2f}" of a finite double: its hundredths, the exact value rounded
\* to the nearest, a tie to the even neighbour
Hundredths(x) ==
    IF x.m = Zero THEN Zero ELSE RoundHalfEven(Scale(x.m, 2, x.e))

\* f"{x:.2f}"
FixedText(x) ==
    (IF x.neg /\ x.kind # "nan" THEN <<"-">> ELSE <<>>)
    \o (CASE x.kind = "nan" -> <<"n","a","n">>
          [] x.kind = "inf" -> <<"i","n","f">>
          [] x.kind = "finite" ->
                With(Pad(Hundredths(x), 3), LAMBDA h :
                    SubSeq(h, 1, Len(h) - 2) \o <<".">> \o SubSeq(h, Len(h) - 1, Len(h))))

(***************************************************************************)
(* Values, dicts, results                                                  *)
(***************************************************************************)
Null == [t |-> "null"]
StrV(s) == [t |-> "str", s |-> s]
IntV(n) == Integer(n < 0, NatDigits(IF n < 0 THEN 0 - n ELSE n))
\* a dict: its items, and its keys in the order they were inserted
MapV(keys, m) == [t |-> "map", keys |-> keys, m |-> m]
ListV(l) == [t |-> "list", l |-> l]
FloatV(x) == [t |-> "float", x |-> x]
BoolV(b) == [t |-> "bool", b |-> b]
EmptyDict == [k \in {} |-> Null]

Ok(v) == [raised |-> FALSE, value |-> v]
Raise(e) == [raised |-> TRUE, exc |-> e]

\* dict.get(key, default)
Get(d, key, default) == IF key \in DOMAIN d THEN d[key] ELSE default

\* x.get(key, default) of any value: only a dict has the method
AttrGet(v, key, default) ==
    IF v.t = "map" THEN Ok(Get(v.m, key, default)) ELSE Raise("AttributeError")

\* x[key] with a str key: a dict without the key is a KeyError, a value that
\* is no dict a TypeError
Subscript(v, key) ==
    IF v.t # "map" THEN Raise("TypeError")
    ELSE IF key \in DOMAIN v.m THEN Ok(v.m[key])
    ELSE Raise("KeyError")

\* Python truthiness of a value (the `not x` tests)
Truthy(v) ==
    CASE v.t = "null" -> FALSE
      [] v.t = "str" -> Len(v.s) > 0
      [] v.t = "int" -> v.digits # Zero
      [] v.t = "float" -> v.x.kind # "finite" \/ v.x.m # Zero
      [] v.t = "bool" -> v.b
      [] v.t = "map" -> DOMAIN v.m # {}
      [] v.t = "list" -> Len(v.l) > 0

\* the keys of a dict in insertion order, each a str whose text is kept whole
KeySeq(keys) == [i \in 1..Len(keys) |-> StrV(<<keys[i]>>)]

\* what `for x in v` runs over: the items of a list, the characters of a
\* str, the keys of a dict; None, a number and a bool are not iterable
Iter(v) ==
    CASE v.t = "list" -> Ok(v.l)
      [] v.t = "str" -> Ok([i \in 1..Len(v.s) |-> StrV(<<v.s[i]>>)])
      [] v.t = "map" -> Ok(KeySeq(v.keys))
      [] OTHER -> Raise("TypeError")

(***************************************************************************)
(* Formatters                                                              *)
(***************************************************************************)
\* True is 1 and False is 0
BoolInt(b) == Integer(FALSE, IF b THEN <<"1">> ELSE Zero)

\* a finite float rounded towards zero
Trunc(x) ==
    With(Floor(Scale(x.m, 0, x.e)), LAMBDA whole : Integer(x.neg /\ whole # Zero, whole))

\* int(count): an int is itself, a str is parsed (ValueError), a float is
\* rounded towards zero unless it is nan (ValueError) or infinite
\* (OverflowError); a value of another type is a TypeError
ToInt(v) ==
    CASE v.t = "int" -> Ok(v)
      [] v.t = "bool" -> Ok(BoolInt(v.b))
      [] v.t = "str" ->
            With(ParseInt(v.s), LAMBDA p :
                IF p.ok THEN Ok(Integer(p.neg, p.digits)) ELSE Raise("ValueError"))
      [] v.t = "float" ->
            CASE v.x.kind = "nan" -> Raise("ValueError")
              [] v.x.kind = "inf" -> Raise("OverflowError")
              [] OTHER -> Ok(Trunc(v.x))
      [] OTHER -> Raise("TypeError")

\* str(n) / f"{n}" of an int: a ValueError beyond MaxStrDigits digits
IntStr(n) ==
    IF Len(n.digits) > MaxStrDigits THEN Raise("ValueError")
    ELSE Ok((IF n.neg THEN <<"-">> ELSE <<>>) \o n.digits)

\* the value holds an int that str() does not write: printing the value, or
\* a dict or list that holds it, is a ValueError
RECURSIVE HasLongInt(_)
HasLongInt(v) ==
    CASE v.t = "int" -> IntStr(v).raised
      [] v.t = "map" -> \E key \in DOMAIN v.m : HasLongInt(v.m[key])
      [] v.t = "list" -> \E i \in 1..Len(v.l) : HasLongInt(v.l[i])
      [] OTHER -> FALSE

\* format_tokens dividing by 1024
format_tokens_kibi(count) ==
    IF ~Truthy(count) THEN Ok(NA)
    ELSE With(ToInt(count), LAMBDA c :
         With(IF c.raised THEN c ELSE IntStr(c.value), LAMBDA whole :
         With(IF whole.raised THEN whole ELSE IntStr(FloorDiv(c.value, 1024)), LAMBDA k_value :
             IF ~k_value.raised
             THEN Ok(whole.value \o <<" ","|"," ">> \o k_value.value \o <<"k">>)
             ELSE IF k_value.exc \in {"ValueError", "TypeError"} THEN Ok(NA)
             ELSE k_value)))

\* f"{count} | {count // 1000}k" of int(count); ValueError and TypeError
\* give "N/A", any other exception leaves the function
format_tokens(count) ==
    IF ~Truthy(count) THEN Ok(NA)
    ELSE With(ToInt(count), LAMBDA c :
         With(IF c.raised THEN c ELSE IntStr(c.value), LAMBDA whole :
         With(IF whole.raised THEN whole ELSE IntStr(FloorDiv(c.value, 1000)), LAMBDA k_value :
             IF ~k_value.raised
             THEN Ok(whole.value \o <<" ","|"," ">> \o k_value.value \o <<"k">>)
             ELSE IF k_value.exc \in {"ValueError", "TypeError"} THEN Ok(NA)
             ELSE k_value)))

\* float(price_str): a str is parsed and rounded to a double (ValueError),
\* an int is rounded to a double unless it is too large for one
\* (OverflowError), a float is itself, True is 1.0; a value of another type
\* is a TypeError
ToFloat(v) ==
    CASE v.t = "float" -> Ok(v.x)
      [] v.t \in {"str", "int", "bool"} ->
            With(CASE v.t = "str" -> ParseFloat(v.s)
                   [] v.t = "int" -> [ok |-> TRUE, kind |-> "finite", neg |-> v.neg,
                                      digits |-> v.digits, exp |-> 0]
                   [] v.t = "bool" -> [ok |-> TRUE, kind |-> "finite", neg |-> FALSE,
                                       digits |-> BoolInt(v.b).digits, exp |-> 0],
                 LAMBDA p :
                IF ~p.ok THEN Raise("ValueError")
                ELSE With(CASE p.kind = "inf" -> Infinite
                            [] p.kind = "nan" -> NotANumber
                            [] OTHER -> ToDouble(p.digits, p.exp),
                          LAMBDA x :
                         IF v.t = "int" /\ x.kind = "inf" THEN Raise("OverflowError")
                         ELSE Ok(Float(p.neg, x))))
      [] OTHER -> Raise("TypeError")

\* f"${float(price_str) * 1_000_000:.2f}"; ValueError and TypeError give
\* "N/A", any other exception leaves the function
format_price_dollars(price_str) ==
    IF ~Truthy(price_str) THEN Ok(NA)
    ELSE With(ToFloat(price_str), LAMBDA price :
             IF ~price.raised THEN Ok(<<"$">> \o FixedText(TimesMillion(price.value)))
             ELSE IF price.exc \in {"ValueError", "TypeError"} THEN Ok(NA)
             ELSE price)

\* the calendar date of a day number counted from 1970-01-01
CivilFromDays(days) ==
    LET z == days + 719468
        era == z \div 146097
        doe == z - era * 146097
        yoe == (doe - doe \div 1460 + doe \div 36524 - doe \div 146096) \div 365
        doy == doe - (365 * yoe + yoe \div 4 - yoe \div 100)
        mp == (5 * doy + 2) \div 153
        d == doy - (153 * mp + 2) \div 5 + 1
        m == IF mp < 10 THEN mp + 3 ELSE mp - 9
        y == yoe + era * 400 + (IF m <= 2 THEN 1 ELSE 0)
    IN  [y |-> y, m |-> m, d |-> d]

\* the seconds east of UTC of the process's local time zone: what the
\* environment (TZ, /etc/localtime) makes localtime() apply
TzOffsets == {-28800, 0, 32400}

TimeTMax ==
    <<"9","2","2","3","3","7","2","0","3","6","8","5","4","7","7","5","8","0","7">>

\* the int fits the platform's time_t
InTimeT(n) == CmpNat(n.digits, TimeTMax) <= 0 \/ (n.neg /\ n.digits = Succ(TimeTMax))

\* the day, counted from 1970-01-01, of the local time of a time stamp of
\* at most 12 digits
LocalDay(n, utc_offset) ==
    With(DivSmall(n.digits, 86400), LAMBDA d :
    With(DigitsVal(d.q), LAMBDA q :
        LET day == IF ~n.neg THEN q ELSE IF d.r = 0 THEN 0 - q ELSE 0 - q - 1
            second == IF n.neg /\ d.r # 0 THEN 86400 - d.r ELSE d.r
        IN  day + ((second + utc_offset) \div 86400)))

Million == <<"1","0","0","0","0","0","0">>

\* the whole seconds of a finite float time stamp: the fraction, times
\* 1_000_000 as a double, is rounded to whole microseconds, a tie to the
\* even one; a full second of them is carried, and a time before 1970 with
\* microseconds left counts from the second below
FloatSeconds(x) ==
    With(Scale(x.m, 0, x.e), LAMBDA d :
    With(Floor(d), LAMBDA whole :
    With(Filled(d), LAMBDA f :
    With(IF d.p >= 0 THEN Zero ELSE StripZeros(SubSeq(f, Len(f) + d.p + 1, Len(f))),
         LAMBDA fraction :
    With(IF fraction = Zero THEN Finite(Zero, 0) ELSE ToBinary(fraction, d.p + 6, 0),
         LAMBDA scaled :
    With(IF scaled.m = Zero THEN Zero ELSE RoundHalfEven(Scale(scaled.m, 0, scaled.e)),
         LAMBDA micros :
    With((~x.neg /\ CmpNat(micros, Million) >= 0) \/ (x.neg /\ micros # Zero),
         LAMBDA carry :
    With(IF carry THEN Succ(whole) ELSE whole, LAMBDA seconds :
        Integer(x.neg /\ seconds # Zero, seconds)))))))))

\* strftime("%Y-%m-%d") of the local time of a time stamp within time_t: a
\* local time after the year 9999, or less than a day into the year 1, is a
\* ValueError or an OSError, which give "N/A"
DateText(n, utc_offset) ==
    IF Len(n.digits) > 12 THEN Ok(NA)
    ELSE With(LocalDay(n, utc_offset), LAMBDA day :
         With(CivilFromDays(day), LAMBDA c :
             IF c.y > 9999 \/ CivilFromDays(day - 1).y < 1 THEN Ok(NA)
             ELSE Ok(NatDigits(c.y) \o <<"-">> \o Pad(NatDigits(c.m), 2)
                     \o <<"-">> \o Pad(NatDigits(c.d), 2))))

\* datetime.fromtimestamp(unix_ts).strftime("%Y-%m-%d"): a value that is no
\* number is a TypeError and nan a ValueError, which give "N/A"; a number
\* beyond time_t is an OverflowError, which is not caught
format_timestamp(unix_ts, utc_offset) ==
    IF ~Truthy(unix_ts) THEN Ok(NA)
    ELSE IF unix_ts.t \notin {"int", "bool", "float"} THEN Ok(NA)
    ELSE IF unix_ts.t = "float" /\ unix_ts.x.kind = "nan" THEN Ok(NA)
    ELSE IF unix_ts.t = "float" /\ unix_ts.x.kind = "inf" THEN Raise("OverflowError")
    ELSE With(CASE unix_ts.t = "int" -> unix_ts
                [] unix_ts.t = "bool" -> BoolInt(unix_ts.b)
                [] unix_ts.t = "float" -> FloatSeconds(unix_ts.x),
              LAMBDA seconds :
             IF ~InTimeT(seconds) THEN Raise("OverflowError")
             ELSE DateText(seconds, utc_offset))


(***************************************************************************)
(* Matcher                                                                 *)
(***************************************************************************)
\* x.lower(): only a str has the method
LowerOf(v) == IF v.t = "str" THEN Ok(Lower(v.s)) ELSE Raise("AttributeError")

\* x.get(key, "").lower()
FieldLower(x, key) ==
    With(AttrGet(x, key, StrV(<<>>)), LAMBDA field :
        IF field.raised THEN field ELSE LowerOf(field.value))

\* model.get("architecture", {}).get("modality", "").lower()
ModalityLower(model) ==
    With(AttrGet(model, "architecture", MapV(<<>>, EmptyDict)), LAMBDA a :
        IF a.raised THEN a ELSE FieldLower(a.value, "modality"))

\* one iteration of the loop of search_models: does the record match, or
\* which exception does reading it raise
ModelMatches(model, query_lower) ==
    With(FieldLower(model, "id"), LAMBDA model_id :
    With(IF model_id.raised THEN model_id ELSE FieldLower(model, "name"), LAMBDA name :
    With(IF name.raised THEN name ELSE ModalityLower(model), LAMBDA modality :
        IF modality.raised THEN modality
        ELSE Ok(\E field \in {model_id, name, modality} :
                    Contains(query_lower, field.value)))))

\* the positions, in order, of the items search_models appends to matches
MatchPositions(ms, query) ==
    With(Lower(query), LAMBDA query_lower :
    With({i \in 1..Len(ms) : ModelMatches(ms[i], query_lower).value}, LAMBDA hit :
        LET RECURSIVE Asc(_, _)
            Asc(i, acc) ==
                IF i > Len(ms) THEN acc
                ELSE Asc(i + 1, IF i \in hit THEN Append(acc, i) ELSE acc)
        IN  Asc(1, <<>>)))

\* search_models(models, query), the matches given by position in what the
\* loop runs over
search_positions(fetched, query) ==
    With(Iter(fetched), LAMBDA it :
    With(Lower(query), LAMBDA query_lower :
        IF it.raised THEN it
        ELSE IF \E i \in 1..Len(it.value) : ModelMatches(it.value[i], query_lower).raised
        THEN Raise("AttributeError")
        ELSE Ok(MatchPositions(it.value, query))))

search_models(fetched, query) ==
    With(search_positions(fetched, query), LAMBDA r :
        IF r.raised THEN r
        ELSE Ok([k \in 1..Len(r.value) |-> Iter(fetched).value[r.value[k]]]))

(***************************************************************************)
(* Tabular view                                                            *)
(***************************************************************************)
\* formatter(x.get(key)) as a cell
FormattedCell(x, formatted) ==
    IF x.raised THEN x
    ELSE IF formatted.raised THEN formatted
    ELSE Ok(StrV(formatted.value))

\* build_table_row(model): the three nested values are read first, then the
\* nine cells are evaluated from left to right; the first exception leaves
\* the function
build_table_row(model, utc_offset) ==
    LET architecture == AttrGet(model, "architecture", MapV(<<>>, EmptyDict))
        pricing == AttrGet(model, "pricing", MapV(<<>>, EmptyDict))
        top_provider == AttrGet(model, "top_provider", MapV(<<>>, EmptyDict))
    IN  IF architecture.raised THEN architecture
        ELSE LET created == AttrGet(model, "created", Null)
                 context_length == AttrGet(model, "context_length", Null)
                 prompt == AttrGet(pricing.value, "prompt", Null)
                 completion == AttrGet(pricing.value, "completion", Null)
                 max_tokens == AttrGet(top_provider.value, "max_completion_tokens", Null)
             IN  With(<< AttrGet(model, "id", StrV(NA)),
                         AttrGet(model, "name", StrV(NA)),
                         FormattedCell(created, format_timestamp(created.value, utc_offset)),
                         FormattedCell(context_length, format_tokens(context_length.value)),
                         AttrGet(architecture.value, "modality", StrV(NA)),
                         AttrGet(architecture.value, "tokenizer", StrV(NA)),
                         FormattedCell(prompt, format_price_dollars(prompt.value)),
                         FormattedCell(completion, format_price_dollars(completion.value)),
                         FormattedCell(max_tokens, format_tokens(max_tokens.value)) >>,
                      LAMBDA cells :
                 With({k \in 1..9 : cells[k].raised}, LAMBDA failed :
                     IF failed = {} THEN Ok([k \in 1..9 |-> cells[k].value])
                     ELSE cells[CHOOSE k \in failed : \A j \in failed : k <= j]))

(***************************************************************************)
(* Fetcher                                                                 *)
(***************************************************************************)
\* sys.exit(1) after a message on the error stream and n requests
Exit(text, n) == [raised |-> TRUE, exc |-> "SystemExit", text |-> text, requests |-> n]

\* an exception that fetch_models does not catch, after n requests
Uncaught(exc, n) == [raised |-> TRUE, exc |-> exc, text |-> <<>>, requests |-> n]

TimeoutText ==
    <<"E","r","r","o","r",":"," ","R","e","q","u","e","s","t"," ","t","i","m",
      "e","d"," ","o","u","t">>
FetchFailedText ==
    <<"E","r","r","o","r",":"," ","F","a","i","l","e","d"," ","t","o"," ","f",
      "e","t","c","h"," ","m","o","d","e","l","s",":"," ">>
InvalidResponseText ==
    <<"E","r","r","o","r",":"," ","I","n","v","a","l","i","d"," ","A","P","I",
      " ","r","e","s","p","o","n","s","e",":"," ">>

\* str(e) of KeyError("data")
DataKeyText == <<"'","d","a","t","a","'">>

\* str(e) of the exceptions of the requests library and of the decoder
ExceptionTexts == {<<"C">>, <<"4","0","4">>}

\* what one requests.get / raise_for_status / json() does: the outcome, the
\* text of its exception, the value the body parses to
Reply(outcome, text, body) == [outcome |-> outcome, text |-> text, body |-> body]

NoReply == Reply("none", <<>>, Null)

\* the request times out; it raises another RequestException (connection,
\* HTTP status, or a body that is no JSON under requests from 2.27 on); the
\* body is no JSON and the decoder raises json.JSONDecodeError (older
\* requests) or only a ValueError (older requests decoding with
\* simplejson); the body is JSON and parses to one of the values
Replies(bodies) ==
    {Reply("timeout", <<>>, Null)}
    \cup {Reply("request_exception", t, Null) : t \in ExceptionTexts}
    \cup {Reply("json_decode_error", t, Null) : t \in ExceptionTexts}
    \cup {Reply("decoder_value_error", t, Null) : t \in ExceptionTexts}
    \cup {Reply("json", <<>>, b) : b \in bodies}

\* fetch_models() retrying once after a timeout
fetch_models_retry(reply) ==
    CASE reply.outcome = "timeout" -> Exit(TimeoutText, 2)
      [] reply.outcome = "request_exception" -> Exit(FetchFailedText \o reply.text, 1)
      [] reply.outcome = "json_decode_error" -> Exit(InvalidResponseText \o reply.text, 1)
      [] reply.outcome = "decoder_value_error" -> Uncaught("ValueError", 1)
      [] reply.outcome = "json" ->
            LET data == Subscript(reply.body, "data")
            IN  IF ~data.raised THEN [raised |-> FALSE, value |-> data.value, requests |-> 1]
                ELSE IF data.exc = "KeyError" THEN Exit(InvalidResponseText \o DataKeyText, 1)
                ELSE Uncaught(data.exc, 1)

\* fetch_models(): one requests.get; response.json()["data"], or a message
\* and sys.exit(1), or an exception no clause catches
fetch_models(reply) ==
    CASE reply.outcome = "timeout" -> Exit(TimeoutText, 1)
      [] reply.outcome = "request_exception" -> Exit(FetchFailedText \o reply.text, 1)
      [] reply.outcome = "json_decode_error" -> Exit(InvalidResponseText \o reply.text, 1)
      [] reply.outcome = "decoder_value_error" -> Uncaught("ValueError", 1)
      [] reply.outcome = "json" ->
            LET data == Subscript(reply.body, "data")
            IN  IF ~data.raised THEN [raised |-> FALSE, value |-> data.value, requests |-> 1]
                ELSE IF data.exc = "KeyError" THEN Exit(InvalidResponseText \o DataKeyText, 1)
                ELSE Uncaught(data.exc, 1)

(***************************************************************************)
(* Detailed view                                                           *)
(***************************************************************************)
\* re.split(r'\.(?:\s+|\n)', s): cut at every point followed by white space
RECURSIVE SplitSentences(_)
SplitSentences(s) ==
    LET cuts == {i \in 1..(Len(s) - 1) : s[i] = "." /\ IsSpace(s[i + 1])}
    IN  IF cuts = {} THEN <<s>>
        ELSE LET i == CHOOSE c \in cuts : \A d \in cuts : c <= d
                 after == {j \in (i + 1)..Len(s) : ~IsSpace(s[j])}
                 j == IF after = {} THEN Len(s) + 1
                      ELSE CHOOSE a \in after : \A b \in after : a <= b
             IN  <<SubSeq(s, 1, i - 1)>> \o SplitSentences(SubSeq(s, j, Len(s)))

\* one printed line of a sentence: two blanks, the sentence, a closing point
SentenceLine(s) ==
    <<" ", " ">> \o s \o (IF s[Len(s)] \in {".", "!", "?"} THEN <<>> ELSE <<".">>)

RECURSIVE JoinLines(_)
JoinLines(lines) ==
    IF Len(lines) = 0 THEN <<>>
    ELSE IF Len(lines) = 1 THEN lines[1]
    ELSE lines[1] \o <<"\n">> \o JoinLines(Tail(lines))

NoDescriptionText ==
    <<" "," ","(","n","o"," ","d","e","s","c","r","i","p","t","i","o","n",
      ")">>

\* format_description(desc); only a str has strip()
format_description(desc) ==
    IF ~Truthy(desc) THEN Ok(NoDescriptionText)
    ELSE IF desc.t # "str" THEN Raise("AttributeError")
    ELSE With(SplitSentences(Strip(desc.s)), LAMBDA sentences :
         With([k \in 1..Len(sentences) |-> Strip(sentences[k])], LAMBDA stripped :
         With(SelectSeq(stripped, LAMBDA x : Len(x) > 0), LAMBDA kept :
             Ok(JoinLines([k \in 1..Len(kept) |-> SentenceLine(kept[k])])))))

\* dict.pop(key, ...): the dict without the key, the other keys in their order
DictWithout(d, key) ==
    MapV(SelectSeq(d.keys, LAMBDA k : k # key), [k \in DOMAIN d.m \ {key} |-> d.m[k]])

\* the dicts print_full_model can reach: those of the list, and the one its
\* local name refers to after model.copy(), a new dict with the same items
dict_alias(ms, i) == [store |-> ms, ref |-> i]

dict_copy(ms, i) == [store |-> Append(ms, ms[i]), ref |-> Len(ms) + 1]

prominent == <<"name", "id", "canonical_slug", "hugging_face_id", "created", "context_length">>

\* the value printed for a prominent field
ProminentShown(value) ==
    IF value.t = "str" /\ value.s = <<>> THEN StrV(<<"\"", "\"">>)
    ELSE IF value.t = "null" THEN StrV(<<"n", "u", "l", "l">>)
    ELSE value

\* the loop over the prominent keys: pops each from the dict at ref and
\* prints its line; a value str() cannot write ends the loop after its pop,
\* the lines before it printed
RECURSIVE PopProminent(_, _, _, _)
PopProminent(store, ref, k, lines) ==
    IF k > Len(prominent) THEN [raised |-> FALSE, store |-> store, lines |-> lines]
    ELSE With(Get(store[ref].m, prominent[k], Null), LAMBDA value :
         With([store EXCEPT ![ref] = DictWithout(store[ref], prominent[k])], LAMBDA popped :
             IF HasLongInt(value)
             THEN [raised |-> TRUE, store |-> popped, lines |-> lines]
             ELSE PopProminent(popped, ref, k + 1,
                               Append(lines, <<prominent[k], ProminentShown(value)>>))))

\* print_full_model(ms[i]) for a dict ms[i] of the list ms: what it prints,
\* the dict it popped from, and the list's items afterwards. It prints as it
\* goes: a description that has no strip() ends it with nothing printed, a
\* prominent field str() cannot write with the description and the lines
\* before that field printed, and a rest yaml.dump cannot write with the
\* description, the prominent lines and the empty line after them printed
print_full_model(ms, i) ==
    With(dict_copy(ms, i), LAMBDA c :
    With(format_description(Get(c.store[c.ref].m, "description", StrV(<<>>))), LAMBDA desc :
    With([c.store EXCEPT ![c.ref] = DictWithout(c.store[c.ref], "description")],
         LAMBDA popped :
        IF desc.raised
        THEN [raised |-> TRUE, exc |-> desc.exc, models |-> SubSeq(popped, 1, Len(ms)),
              out |-> <<>>]
        ELSE With(PopProminent(popped, c.ref, 1, <<>>), LAMBDA p :
            IF p.raised \/ HasLongInt(p.store[c.ref])
            THEN [raised |-> TRUE, exc |-> "ValueError",
                  models |-> SubSeq(p.store, 1, Len(ms)),
                  out |-> <<[kind |-> "detail_begun", description |-> desc.value,
                             prominent |-> p.lines, empty_line |-> ~p.raised]>>]
            ELSE [raised |-> FALSE,
                  models |-> SubSeq(p.store, 1, Len(ms)),
                  shown |-> p.store[c.ref].m,
                  out |-> <<[kind |-> "detail", description |-> desc.value,
                             prominent |-> p.lines, rest |-> p.store[c.ref]]>>]))))

(***************************************************************************)
(* Command line                                                            *)
(***************************************************************************)
\* what the parser, which knows the options -h and --help only, takes the
\* word w for: a positional argument, the help option (spelled out,
\* abbreviated, or -h repeated as in -hh), an option it does not know, or
\* the help option with an argument attached, which is an error
parse_optional(w) ==
    LET n == Len(w)
        eq == {i \in 1..n : w[i] = "="}
        at == IF eq = {} THEN n + 1 ELSE CHOOSE i \in eq : \A j \in eq : i <= j
        explicit_arg == SubSeq(w, at + 1, n)
        long == <<"-", "-", "h", "e", "l", "p">>
        attached == IF at = 3 THEN explicit_arg ELSE SubSeq(w, 3, n)
        others == {i \in 1..Len(attached) : attached[i] # "h"}
        rest == IF others = {} THEN <<>>
                ELSE SubSeq(attached, CHOOSE i \in others : \A j \in others : i <= j,
                            Len(attached))
        number == IF n > 1 /\ w[n] = "\n" THEN SubSeq(w, 2, n - 1) ELSE SubSeq(w, 2, n)
        points == {i \in 1..Len(number) : number[i] = "."}
        \* \d of a pattern: a decimal digit, of ASCII or not
        IsDecimal(c) == IsDigit(c) \/ c \in DOMAIN DecimalOf
    IN  IF n = 0 \/ w[1] # "-" THEN [kind |-> "positional"]
        ELSE IF w = <<"-", "h">> \/ w = long THEN [kind |-> "help"]
        ELSE IF n = 1 THEN [kind |-> "positional"]
        ELSE IF /\ w[2] = "-"
                /\ at - 1 <= Len(long)
                /\ SubSeq(w, 1, at - 1) = SubSeq(long, 1, at - 1)
        THEN (IF eq = {} THEN [kind |-> "help"] ELSE [kind |-> "error", arg |-> explicit_arg])
        ELSE IF w[2] = "h"
        THEN (IF attached # <<>> /\ rest = <<>> THEN [kind |-> "help"]
              ELSE [kind |-> "error", arg |-> rest])
        ELSE IF /\ \A i \in 1..Len(number) : IsDecimal(number[i]) \/ i \in points
                /\ Cardinality(points) <= 1
                /\ Len(number) > 0
                /\ Len(number) \notin points
        THEN [kind |-> "positional"]
        ELSE IF \E i \in 1..n : w[i] = " " THEN [kind |-> "positional"]
        ELSE [kind |-> "unknown"]

\* parse_args(): the words before the first "--" are read from the left,
\* where the help option ends the process with the help text and status 0
\* and an attached argument with an error; the query is the first run of
\* positional words, and any word left over, as after an unknown option, is
\* an error; else args.query is the words without the first "--"
parse_args(words) ==
    LET n == Len(words)
        seps == {i \in 1..n : words[i] = <<"-", "-">>}
        cut == IF seps = {} THEN n + 1 ELSE CHOOSE i \in seps : \A j \in seps : i <= j
    IN  With([i \in 1..n |-> IF i >= cut THEN [kind |-> "positional"]
                              ELSE parse_optional(words[i])], LAMBDA word :
        With({i \in 1..n : word[i].kind \in {"help", "error"}}, LAMBDA stops :
        With({i \in 1..n : word[i].kind = "unknown"}, LAMBDA options :
            IF stops # {}
            THEN LET i == CHOOSE s \in stops : \A j \in stops : s <= j
                 IN  IF word[i].kind = "help" THEN [kind |-> "help"]
                     ELSE [kind |-> "error", message |-> "ignored explicit argument",
                           words |-> <<word[i].arg>>]
            ELSE IF options # {}
            THEN LET first == CHOOSE i \in 1..(n + 1) :
                                  /\ i \notin options
                                  /\ \A j \in 1..(i - 1) : j \in options
                     last == CHOOSE i \in first..(n + 1) :
                                 /\ i = n + 1 \/ i \in options
                                 /\ \A j \in first..(i - 1) : j \notin options
                 IN  [kind |-> "error", message |-> "unrecognized arguments",
                      words |-> SubSeq(words, 1, first - 1) \o SubSeq(words, last, n)]
            ELSE [kind |-> "ok",
                  query |-> SubSeq(words, 1, cut - 1) \o SubSeq(words, cut + 1, n)])))

\* what the parser prints on standard output for the help option
HelpText == [kind |-> "help"]

(***************************************************************************)
(* Controller                                                              *)
(***************************************************************************)
NoQueryText ==
    <<"E","r","r","o","r",":"," ","N","o"," ","s","e","a","r","c","h"," ","q",
      "u","e","r","y"," ","p","r","o","v","i","d","e","d",".">>
NoModelsPrefix ==
    <<"N","o"," ","m","o","d","e","l","s"," ","f","o","u","n","d"," ","m","a",
      "t","c","h","i","n","g"," ">>
FoundPrefix ==
    <<"F","o","u","n","d"," ">>
ModelsMatching ==
    <<" ","m","o","d","e","l","(","s",")"," ","m","a","t","c","h","i","n","g",
      " ">>

\* ", ".join(f"'{q}'" for q in args.query)
RECURSIVE JoinQuoted(_)
JoinQuoted(qs) ==
    IF Len(qs) = 0 THEN <<>>
    ELSE <<"'">> \o qs[1] \o <<"'">>
         \o (IF Len(qs) = 1 THEN <<>> ELSE <<",", " ">> \o JoinQuoted(Tail(qs)))

\* model.get("id") == query of a dict
IdIs(model, query) ==
    /\ "id" \in DOMAIN model.m
    /\ model.m["id"].t = "str"
    /\ model.m["id"].s = query

\* lines 204-207: the position of the first item whose id equals the single
\* query, 0 when there is none or the query list is not a single query; the
\* loop ends with an exception at a value that cannot be iterated and at an
\* item before the hit that is no dict
exact_id_position(fetched, qs) ==
    IF Len(qs) # 1 THEN Ok(0)
    ELSE LET it == Iter(fetched)
         IN  IF it.raised THEN it
             ELSE LET ms == it.value
                      stops == {i \in 1..Len(ms) : ms[i].t # "map" \/ IdIs(ms[i], qs[1])}
                  IN  IF stops = {} THEN Ok(0)
                      ELSE LET i == CHOOSE s \in stops : \A j \in stops : s <= j
                           IN  IF ms[i].t # "map" THEN Raise("AttributeError") ELSE Ok(i)

\* the inner loop of the collection: the matches of one query, in order,
\* added unless their id was seen
RECURSIVE AddMatches(_, _, _, _)
AddMatches(ms, positions, seen, matches) ==
    IF Len(positions) = 0 THEN [seen_ids |-> seen, all_matches |-> matches]
    ELSE LET model_id == Get(ms[positions[1]].m, "id", Null)
         IN  IF model_id \in seen
             THEN AddMatches(ms, Tail(positions), seen, matches)
             ELSE AddMatches(ms, Tail(positions), seen \cup {model_id},
                             Append(matches, positions[1]))

\* one iteration of the loop over args.query
collect_query(fetched, q, seen, matches) ==
    With(search_positions(fetched, q), LAMBDA r :
        IF r.raised THEN r
        ELSE Ok(AddMatches(Iter(fetched).value, r.value, seen, matches)))

no_models_message(qs) == NoModelsPrefix \o JoinQuoted(qs)

found_message(n, qs) ==
    FoundPrefix \o IntText(n) \o ModelsMatching \o JoinQuoted(qs) \o <<":", "\n">>

TABLE_HEADERS == <<"ID", "NAME", "CREATED", "CONTEXT_LENGTH", "MODALITY", "TOKENIZER",
                   "PROMPT", "COMPLETION", "MAX_COMPL_TOKENS">>

\* print_comparison_table(models): the rows in order, then the table; the
\* first row that raises ends it, and so does a cell tabulate cannot write
print_comparison_table(ms, matches, utc_offset) ==
    With([k \in 1..Len(matches) |-> build_table_row(ms[matches[k]], utc_offset)],
         LAMBDA rows :
    With({k \in 1..Len(matches) : rows[k].raised}, LAMBDA failed :
        IF failed # {} THEN rows[CHOOSE k \in failed : \A j \in failed : k <= j]
        ELSE IF \E k \in 1..Len(matches) : HasLongInt(ListV(rows[k].value))
        THEN Raise("ValueError")
        ELSE Ok([kind |-> "table", headers |-> TABLE_HEADERS,
                 rows |-> [k \in 1..Len(matches) |-> rows[k].value]])))

\* an uncaught exception: the interpreter's traceback on the error stream
Traceback(exc) == [kind |-> "traceback", exc |-> exc]
ErrorLine(text) == [kind |-> "message", text |-> text]

\* the report without the sys.exit(1) of the branch for no matches
report_fallthrough(ms, matches, qs, utc_offset) ==
    LET summary == [kind |-> "summary", text |-> found_message(Len(matches), qs)]
        err == IF matches = <<>> THEN <<ErrorLine(no_models_message(qs))>> ELSE <<>>
    IN  With(print_comparison_table(ms, matches, utc_offset), LAMBDA t :
            IF t.raised
            THEN [out |-> <<summary>>, err |-> err \o <<Traceback(t.exc)>>, exit_code |-> 1]
            ELSE [out |-> <<summary, t.value>>, err |-> err, exit_code |-> 0])

\* lines 221-228: what main prints once the matches are collected, and the
\* exit status
report(ms, matches, qs, utc_offset) ==
    IF matches = <<>>
    THEN [out |-> <<>>, err |-> <<ErrorLine(no_models_message(qs))>>, exit_code |-> 1]
    ELSE LET summary == [kind |-> "summary", text |-> found_message(Len(matches), qs)]
         IN  With(print_comparison_table(ms, matches, utc_offset), LAMBDA t :
                 IF t.raised
                 THEN [out |-> <<summary>>, err |-> <<Traceback(t.exc)>>, exit_code |-> 1]
                 ELSE [out |-> <<summary, t.value>>, err |-> <<>>, exit_code |-> 0])

(***************************************************************************)
(* Inputs                                                                  *)
(***************************************************************************)
\* all sequences over S of length at most n
SeqsUpTo(S, n) == UNION {[1..k -> S] : k \in 0..n}

PriceQuarter == <<"0", ".", "0", "0", "0", "0", "0", "0", "2", "5">>

\* a complete record, with id "a"
FullRecord ==
    MapV(<<"id", "name", "description", "canonical_slug", "hugging_face_id", "created",
           "context_length", "architecture", "pricing", "top_provider">>,
         [id |-> StrV(<<"a">>), name |-> StrV(<<"A", "b">>),
          description |-> StrV(<<"X", ".", "\r", "y">>),
          canonical_slug |-> StrV(<<"a", "b">>), hugging_face_id |-> StrV(<<>>),
          created |-> IntV(1700000000), context_length |-> IntV(131072),
          architecture |-> MapV(<<"modality", "tokenizer">>,
                                [modality |-> StrV(<<"t", ">", "t">>),
                                 tokenizer |-> StrV(<<"G">>)]),
          pricing |-> MapV(<<"prompt", "completion">>,
                           [prompt |-> StrV(PriceQuarter), completion |-> StrV(<<"0">>)]),
          top_provider |-> MapV(<<"max_completion_tokens">>, [max_completion_tokens |-> Null])])

\* the items a data array of the controller's runs is drawn from: records,
\* a record whose description is a number, and null
CatalogRecords ==
    { FullRecord,
      MapV(<<"id", "name">>, [id |-> StrV(<<"a", "b">>), name |-> StrV(<<"B">>)]),
      MapV(<<"id", "name">>, [id |-> StrV(<<"b">>), name |-> Null]),
      MapV(<<"name">>, [name |-> StrV(<<"a", "b">>)]),
      MapV(<<"id", "name">>, [id |-> StrV(<<"a">>), name |-> StrV(<<"c">>)]),
      MapV(<<"id", "name", "pricing">>, [id |-> StrV(<<"c">>), name |-> StrV(<<"a">>), pricing |-> Null]),
      MapV(<<"id", "description">>, [id |-> StrV(<<"B">>), description |-> IntV(5)]),
      Null }

Queries == {<<"a">>, <<"B">>, <<"z", "z">>}

\* what a body holds under "data": an array, or a value that is none
Catalogs ==
    {ListV(l) : l \in SeqsUpTo(CatalogRecords, MaxCatalog)}
    \cup {Null, StrV(<<"a">>), MapV(<<>>, EmptyDict)}

\* the values a JSON body parses to: an object with data, an object without,
\* and values that are no object
Bodies ==
    {MapV(<<"data">>, [data |-> d]) : d \in Catalogs}
    \cup {MapV(<<>>, EmptyDict), MapV(<<"error">>, [error |-> StrV(<<"C">>)]), ListV(<<>>), Null,
          StrV(<<"d", "a", "t", "a">>), IntV(5)}

\* the command lines: queries and words that are none (the help option,
\* also abbreviated and with a letter attached, and an unknown option), and
\* two whose word with a dash is a query, after the separator and as a
\* negative number
CommandLines ==
    SeqsUpTo(Queries \cup {<<"-", "h">>, <<"-", "-", "h", "e">>, <<"-", "h", "x">>,
                           <<"-", "-", "z", "z">>}, MaxArgs)
    \cup {<<<<"-", "-">>, <<"-", "h">>>>, <<<<"-", "1">>>>}

(***************************************************************************)
(* main()                                                                  *)
(***************************************************************************)
\* models before the assignment of line 201
Unset == [t |-> "unset"]

Idle == arg = Null /\ ret = Null /\ called = "none"

Init ==
    /\ pc = "parse"
    /\ argv \in CommandLines
    /\ args_query = <<>>
    /\ catalog = Unset
    /\ models = Unset
    /\ requests = 0
    /\ response = NoReply
    /\ stdout = <<>>
    /\ stderr = <<>>
    /\ exit_code = -1
    /\ qi = 1
    /\ seen_ids = {}
    /\ all_matches = <<>>
    /\ shown = EmptyDict
    /\ Idle

\* sys.exit(1) after a message on the error stream
ExitWith(text) ==
    /\ stderr' = Append(stderr, ErrorLine(text))
    /\ exit_code' = 1
    /\ pc' = "exited"

\* an exception nothing catches ends the interpreter with status 1
Crash(exc) ==
    /\ stderr' = Append(stderr, Traceback(exc))
    /\ exit_code' = 1
    /\ pc' = "exited"

\* line 195: args = parse_args(), which ends the process itself for the
\* help option (the help text, status 0) and for a command line it rejects
\* (the usage line and "<prog>: error: <message>" with the words it is
\* about on standard error, status 2)
ParseArgs ==
    /\ pc = "parse"
    /\ \E r \in {parse_args(argv)} :
           IF r.kind = "ok"
           THEN /\ args_query' = r.query
                /\ pc' = "start"
                /\ UNCHANGED <<stdout, stderr, exit_code>>
           ELSE /\ stdout' = IF r.kind = "help" THEN <<HelpText>> ELSE stdout
                /\ stderr' = IF r.kind = "help" THEN stderr
                              ELSE <<[kind |-> "usage"],
                                     [kind |-> "parser_error", message |-> r.message,
                                      words |-> r.words]>>
                /\ exit_code' = IF r.kind = "help" THEN 0 ELSE 2
                /\ pc' = "exited"
                /\ UNCHANGED args_query
    /\ UNCHANGED <<argv, catalog, models, requests, response, qi, seen_ids, all_matches,
                   shown, arg, ret, called>>

\* lines 197-199: no query is a usage error, before any request
NoQuery ==
    /\ pc = "start"
    /\ args_query = <<>>
    /\ ExitWith(NoQueryText)
    /\ UNCHANGED <<argv, args_query, catalog, models, requests, response, stdout, qi,
                   seen_ids, all_matches, shown, arg, ret, called>>

HaveQuery ==
    /\ pc = "start"
    /\ args_query # <<>>
    /\ pc' = "fetch"
    /\ UNCHANGED <<argv, args_query, catalog, models, requests, response, stdout, stderr,
                   exit_code, qi, seen_ids, all_matches, shown, arg, ret, called>>

\* the reply is a JSON object with the key "data"
HoldsData(reply) ==
    /\ reply.outcome = "json"
    /\ reply.body.t = "map"
    /\ "data" \in DOMAIN reply.body.m

\* line 201: models = fetch_models(), with what the request meets
FetchModels ==
    /\ pc = "fetch"
    /\ \E reply \in Replies(Bodies) :
         LET r == fetch_models(reply)
         IN  /\ requests' = requests + r.requests
             /\ response' = reply
             /\ catalog' = IF HoldsData(reply) THEN reply.body.m["data"] ELSE catalog
             /\ IF ~r.raised
                THEN /\ models' = r.value
                     /\ pc' = "probe"
                     /\ UNCHANGED <<stderr, exit_code>>
                ELSE /\ IF r.exc = "SystemExit" THEN ExitWith(r.text) ELSE Crash(r.exc)
                     /\ UNCHANGED models
    /\ UNCHANGED <<argv, args_query, stdout, qi, seen_ids, all_matches, shown,
                   arg, ret, called>>

\* lines 204-209: a single query that is some record's id shows that record
ExactIdProbe ==
    /\ pc = "probe"
    /\ \E i \in {exact_id_position(models, args_query)} :
           IF i.raised
           THEN Crash(i.exc) /\ UNCHANGED <<models, stdout, shown>>
           ELSE IF i.value = 0
           THEN /\ pc' = "collect"
                /\ UNCHANGED <<models, stdout, stderr, exit_code, shown>>
           ELSE \E r \in {print_full_model(models.l, i.value)} :
                    /\ models' = ListV(r.models)
                    /\ stdout' = stdout \o r.out
                    /\ IF r.raised
                       THEN Crash(r.exc) /\ UNCHANGED shown
                       ELSE /\ shown' = r.shown
                            /\ exit_code' = 0
                            /\ pc' = "exited"
                            /\ UNCHANGED stderr
    /\ UNCHANGED <<argv, args_query, catalog, requests, response, qi, seen_ids, all_matches,
                   arg, ret, called>>

\* lines 214-219: one query of the loop
CollectQuery ==
    /\ pc = "collect"
    /\ qi <= Len(args_query)
    /\ \E r \in {collect_query(models, args_query[qi], seen_ids, all_matches)} :
           IF r.raised
           THEN Crash(r.exc) /\ UNCHANGED <<qi, seen_ids, all_matches>>
           ELSE /\ seen_ids' = r.value.seen_ids
                /\ all_matches' = r.value.all_matches
                /\ qi' = qi + 1
                /\ pc' = IF qi = Len(args_query) THEN "report" ELSE "collect"
                /\ UNCHANGED <<stderr, exit_code>>
    /\ UNCHANGED <<argv, args_query, catalog, models, requests, response, stdout, shown,
                   arg, ret, called>>

\* lines 221-224: nothing matched
NoMatches ==
    /\ pc = "report"
    /\ all_matches = <<>>
    /\ \E utc_offset \in TzOffsets :
         \E r \in {report(Iter(models).value, all_matches, args_query, utc_offset)} :
             /\ stdout' = stdout \o r.out
             /\ stderr' = stderr \o r.err
             /\ exit_code' = r.exit_code
    /\ pc' = "exited"
    /\ UNCHANGED <<argv, args_query, catalog, models, requests, response, qi, seen_ids,
                   all_matches, shown, arg, ret, called>>

\* lines 226-228: the summary line, then the table, in the local time zone
PrintMatches ==
    /\ pc = "report"
    /\ all_matches # <<>>
    /\ \E utc_offset \in TzOffsets :
         \E r \in {report(Iter(models).value, all_matches, args_query, utc_offset)} :
             /\ stdout' = stdout \o r.out
             /\ stderr' = stderr \o r.err
             /\ exit_code' = r.exit_code
    /\ pc' = "exited"
    /\ UNCHANGED <<argv, args_query, catalog, models, requests, response, qi, seen_ids,
                   all_matches, shown, arg, ret, called>>

Next == ParseArgs \/ NoQuery \/ HaveQuery \/ FetchModels \/ ExactIdProbe \/ CollectQuery
        \/ NoMatches \/ PrintMatches

Spec == Init /\ [][Next]_vars

(***************************************************************************)
(* Properties of main()                                                    *)
(***************************************************************************)
\* the text of a field as the matcher is specified to read it: a missing or
\* non-string field is empty
FieldText(x, key) ==
    IF x.t = "map" /\ key \in DOMAIN x.m /\ x.m[key].t = "str" THEN x.m[key].s ELSE <<>>

ModalityText(model) ==
    IF model.t = "map" /\ "architecture" \in DOMAIN model.m
    THEN FieldText(model.m["architecture"], "modality")
    ELSE <<>>

\* the record's id, name or modality contains q, letter case ignored
RecordContains(model, q) ==
    \/ Contains(Lower(q), Lower(FieldText(model, "id")))
    \/ Contains(Lower(q), Lower(FieldText(model, "name")))
    \/ Contains(Lower(q), Lower(ModalityText(model)))

MatchesSomeQuery(model) ==
    \E k \in 1..Len(args_query) : RecordContains(model, args_query[k])

\* the data is an array of records
RecordsCatalog ==
    catalog.t = "list" /\ \A i \in 1..Len(catalog.l) : catalog.l[i].t = "map"

\* the records of the data
CatalogRecordsOf(data) ==
    IF data.t = "list" THEN SelectSeq(data.l, LAMBDA x : x.t = "map") ELSE <<>>

NoRecordMatches ==
    \A i \in 1..Len(CatalogRecordsOf(catalog)) : ~MatchesSomeQuery(CatalogRecordsOf(catalog)[i])

DetailRendered == \E k \in 1..Len(stdout) : stdout[k].kind = "detail"
TableRendered == \E k \in 1..Len(stdout) : stdout[k].kind = "table"
Rendered == DetailRendered \/ TableRendered

\* the request was made and fetch_models returned the data of its body
FetchReturned ==
    /\ response.outcome = "json"
    /\ response.body.t = "map"
    /\ "data" \in DOMAIN response.body.m

\* the request was made and fetch_models did not return
FetchFailed == response # NoReply /\ ~FetchReturned

\* the single query is the id of some record of the data
ExactIdQuery ==
    /\ Len(args_query) = 1
    /\ \E i \in 1..Len(CatalogRecordsOf(catalog)) :
         IdIs(CatalogRecordsOf(catalog)[i], args_query[1])

\* the parser accepts the command line and returns its query list
Parsed == parse_args(argv).kind = "ok"

\* the command line asks for the help text
HelpAsked == parse_args(argv).kind = "help"

\* the command line holds a query: a word before the first "--" that is no
\* option, or any word after it
QuerySupplied ==
    \E i \in 1..Len(argv) :
        IF \E j \in 1..(i - 1) : argv[j] = <<"-", "-">> THEN TRUE
        ELSE argv[i] # <<"-", "-">> /\ parse_optional(argv[i]).kind = "positional"

\* C1 as stated: in every run the exit code is 0 exactly when a detailed or
\* a tabular view was rendered, and it is 1 when no query was supplied, when
\* the fetch failed and when no record matched any query; the process has
\* an exit code exactly when it has ended.
C1_ExitCodeIffRendered ==
    /\ exit_code \in {-1, 0, 1}
    /\ (pc = "exited") <=> (exit_code # -1)
    /\ (exit_code = 0) <=> Rendered
    /\ Rendered => exit_code # 1
    /\ (pc = "exited" /\ (~QuerySupplied \/ FetchFailed \/ (FetchReturned /\ NoRecordMatches)))
          => exit_code = 1

\* C1 amended: in every run whose command line the parser accepts the exit
\* code is 0 exactly when a detailed or a tabular view was rendered, and it
\* is 1 when the query list is empty, when the fetch failed and when no
\* record matched any query; a view is rendered in no run that ends with
\* another code than 0.  A run the parser ends renders no view and makes no
\* request: it ends with the help text and 0 when help was asked for, and
\* with 2 and nothing on standard output otherwise.
C1_ExitCodeIffRenderedOrHelp ==
    /\ exit_code \in {-1, 0, 1, 2}
    /\ (pc = "exited") <=> (exit_code # -1)
    /\ Parsed => exit_code # 2 /\ ((exit_code = 0) <=> Rendered)
    /\ Rendered => exit_code = 0
    /\ (pc = "exited" /\ Parsed
           /\ (args_query = <<>> \/ FetchFailed \/ (FetchReturned /\ NoRecordMatches)))
          => exit_code = 1
    /\ (pc = "exited" /\ ~Parsed) =>
          /\ requests = 0
          /\ exit_code = (IF HelpAsked THEN 0 ELSE 2)
          /\ stdout = (IF HelpAsked THEN <<HelpText>> ELSE <<>>)

\* a run of two queries that rendered the table and exited with 0
C1_Witness ==
    /\ pc = "exited"
    /\ exit_code = 0
    /\ TableRendered
    /\ Len(args_query) = 2

\* what C2 says of a failed request: it is made once and ends the process
\* with nothing matched, collected or rendered
FailedRequestEndsRun ==
    FetchFailed =>
        /\ pc = "exited"
        /\ exit_code = 1
        /\ requests = 1
        /\ models = Unset
        /\ stdout = <<>>
        /\ qi = 1
        /\ seen_ids = {}
        /\ all_matches = <<>>
        /\ Len(stderr) = 1

\* C2 as stated: no request is made when no query is supplied and exactly
\* one otherwise; a failed request is not repeated and ends the process
\* with nothing matched, collected or rendered.
C2_OneRequestNoRetry ==
    /\ requests \in {0, 1}
    /\ ~QuerySupplied => requests = 0
    /\ (QuerySupplied /\ pc \notin {"parse", "start", "fetch"}) => requests = 1
    /\ FailedRequestEndsRun

\* C2 amended: no request is made when the parser ends the process (help
\* asked for, or a command line it rejects) or returns an empty query list,
\* and exactly one otherwise; a failed request is not repeated and ends the
\* process with nothing matched, collected or rendered.
C2_OneRequestPerParsedQueryList ==
    /\ requests \in {0, 1}
    /\ (~Parsed \/ args_query = <<>>) => requests = 0
    /\ (Parsed /\ args_query # <<>> /\ pc \notin {"start", "fetch"}) => requests = 1
    /\ FailedRequestEndsRun

\* a request for two queries that timed out and was made once
C2_Witness ==
    /\ pc = "exited"
    /\ response.outcome = "timeout"
    /\ requests = 1
    /\ Len(args_query) = 2
    /\ stderr = <<ErrorLine(TimeoutText)>>

\* C3: after a successful fetch the detailed view is rendered if and only
\* if exactly one query was given and it is the id of some fetched record;
\* it is then the only thing rendered and shows a record with that id, and
\* it is never rendered for two or more queries.
C3_DetailIffSingleExactId ==
    /\ DetailRendered =>
          /\ FetchReturned
          /\ ExactIdQuery
          /\ Len(stdout) = 1
          /\ stdout[1].prominent[2] = <<"id", StrV(args_query[1])>>
    /\ (FetchReturned /\ pc # "probe" /\ ExactIdQuery) => DetailRendered
    /\ (pc = "exited" /\ Len(args_query) >= 2) => ~DetailRendered

\* C10: the fetched records keep their keys and values on every path; the
\* detailed view pops the description and the prominent fields from a copy.
C10_RecordsNeverMutated ==
    /\ FetchReturned => models = catalog
    /\ DetailRendered =>
          \A key \in {"description"} \cup {prominent[k] : k \in 1..Len(prominent)} :
              key \notin DOMAIN shown

\* the detailed view of a record that has the description and all six
\* prominent fields
C10_Witness ==
    /\ DetailRendered
    /\ \E i \in 1..Len(models.l) :
         /\ models.l[i] = FullRecord
         /\ \A key \in {"description"} \cup {prominent[k] : k \in 1..Len(prominent)} :
              key \in DOMAIN models.l[i].m /\ key \notin DOMAIN shown

\* the first query under which the record at position i is found
FirstQuery(i) ==
    CHOOSE k \in 1..Len(args_query) :
        /\ RecordContains(catalog.l[i], args_query[k])
        /\ \A j \in 1..(k - 1) : ~RecordContains(catalog.l[i], args_query[j])

\* C5: for a data array of records and queries that do not take the exact-id
\* shortcut, the unioned result holds every record that matches some query
\* exactly once, no two entries with the same id, in first-seen order (by
\* query, then by position in the catalog).
C5_UnionHoldsEveryMatchOnce ==
    (pc = "exited" /\ FetchReturned /\ RecordsCatalog /\ ~ExactIdQuery) =>
        /\ \A i \in 1..Len(catalog.l) :
             Cardinality({j \in 1..Len(all_matches) : all_matches[j] = i})
                 = (IF MatchesSomeQuery(catalog.l[i]) THEN 1 ELSE 0)
        /\ \A j, k \in 1..Len(all_matches) :
             j # k => Get(catalog.l[all_matches[j]].m, "id", Null)
                        # Get(catalog.l[all_matches[k]].m, "id", Null)
        /\ \A j, k \in 1..Len(all_matches) :
             j < k => \/ FirstQuery(all_matches[j]) < FirstQuery(all_matches[k])
                      \/ /\ FirstQuery(all_matches[j]) = FirstQuery(all_matches[k])
                         /\ all_matches[j] < all_matches[k]

\* the text holds the quoted queries one after the other
RECURSIVE NamesInOrder(_, _)
NamesInOrder(text, qs) ==
    IF Len(qs) = 0 THEN TRUE
    ELSE LET quoted == <<"'">> \o qs[1] \o <<"'">>
             at == {i \in 0..(Len(text) - Len(quoted)) :
                       SubSeq(text, i + 1, i + Len(quoted)) = quoted}
         IN  /\ at # {}
             /\ LET i == CHOOSE a \in at : \A b \in at : a <= b
                IN  NamesInOrder(SubSeq(text, i + Len(quoted) + 1, Len(text)), Tail(qs))

\* C9: when the fetch returned an array of records and no record matches
\* any query, the run ends with exit code 1, one error message naming every
\* query in the order given, and nothing on standard output.
C9_NoMatchNamesQueries ==
    (pc = "exited" /\ FetchReturned /\ RecordsCatalog /\ NoRecordMatches) =>
        /\ exit_code = 1
        /\ stdout = <<>>
        /\ Len(stderr) = 1
        /\ stderr[1].kind = "message"
        /\ NamesInOrder(stderr[1].text, args_query)

(***************************************************************************)
(* The functions applied directly                                          *)
(***************************************************************************)
\* a key that is not in the dict
Absent == [t |-> "absent"]
\* a dict of the fields that are present, inserted in the order of keys
MkDict(keys, o) ==
    MapV(SelectSeq(keys, LAMBDA k : o[k] # Absent),
         [k \in {x \in DOMAIN o : o[x] # Absent} |-> o[k]])

\* 10^30, an int beyond the platform's time_t
Nonillion == Integer(FALSE, <<"1">> \o Zeros(30))

\* the float a JSON number with a fraction or an exponent parses to, and
\* the floats of the tokens Infinity and NaN
JsonFloat(neg, digits, exp) == FloatV(Float(neg, ToDouble(digits, exp)))
JsonInfinity == FloatV(Float(FALSE, Infinite))
JsonNaN == FloatV(Float(FALSE, NotANumber))

TokenInputs ==
    {IntV(n) : n \in 0..MaxTokens}
    \cup {IntV(131072), IntV(-500), IntV(-1000), IntV(-1001), Nonillion,
          Integer(FALSE, <<"1">> \o Zeros(MaxStrDigits - 1)),
          Integer(FALSE, <<"1">> \o Zeros(MaxStrDigits)),
          Integer(TRUE, <<"1">> \o Zeros(MaxStrDigits)),
          StrV(<<"-">> \o Zeros(MaxStrDigits - 1) \o <<"7">>),
          StrV(<<" ">> \o Zeros(MaxStrDigits) \o <<"7">>),
          Null, StrV(<<>>), StrV(<<"1", "2">>), StrV(<<"4", "k">>),
          StrV(<<" ", "1", "2">>), StrV(<<"1", "2", "\n">>), StrV(<<"1", "_", "0", "0", "0">>),
          StrV(<<"1", "_", "_", "0">>), StrV(<<"+", "7">>), StrV(<<"-", "0">>),
          StrV(<<Char.VT, "1", "2", "\f">>), StrV(<<Char.FS, "1", "2">>), StrV(<<"0">>),
          StrV(<<Char.NO_BREAK_SPACE, Char.FULLWIDTH_DIGIT_ONE, Char.ARABIC_INDIC_DIGIT_THREE>>),
          StrV(<<"1", Char.LATIN_CAPITAL_E_ACUTE>>), StrV(<<Char.FS, "1", Char.NO_BREAK_SPACE>>),
          BoolV(TRUE), BoolV(FALSE), JsonFloat(FALSE, <<"1", "3", "1", "0", "7", "2", "9">>, -1),
          JsonFloat(TRUE, <<"1", "5">>, -1), JsonFloat(FALSE, <<"0">>, 0),
          JsonFloat(FALSE, <<"1">>, 30), JsonInfinity, JsonNaN,
          MapV(<<>>, EmptyDict), MapV(<<"a">>, [a |-> Null]), ListV(<<>>), ListV(<<IntV(1)>>)}

PriceTexts ==
    {<<>>, PriceQuarter, <<"0">>, <<"-", "1", ".", "5">>, <<"f", "r", "e", "e">>,
     <<"1", "e", "-", "6">>, <<"2", ".", "5", "e", "-", "7">>, <<"2", ".", "5", "E", "-", "7">>,
     <<"0", ".", "0", "0", "0", "0", "0", "0", "0", "0", "1">>,
     <<"0", ".", "0", "0", "0", "0", "0", "0", "0", "3", "7", "5">>,
     <<"0", ".", "0", "0", "0", "0", "0", "0", "0", "0", "5">>,
     <<"0", ".", "0", "0", "0", "0", "0", "0", "0", "1", "5">>,
     <<"0", ".", "0", "0", "0", "0", "0", "0", "1", "2", "5">>,
     <<" ", "0", ".", "5">>, <<"0", ".", "5", "\r">>, <<Char.FS, "0", ".", "5">>,
     <<"i", "n", "f">>, <<"-", "I", "n", "f", "i", "n", "i", "t", "y">>,
     <<"n", "a", "n">>, <<"-", "n", "a", "n">>, <<"1", "_", "0">>, <<"1", "_">>,
     <<".", "5">>, <<"5", ".">>, <<".">>, <<"1", "e">>, <<"-", "0">>,
     <<"1", "e", "3", "0", "3">>, <<"1", "e", "4", "0", "0">>,
     <<"-", "1", "e", "-", "4", "0", "0">>, <<"0", "x", "1", "0">>,
     <<Char.IDEOGRAPHIC_SPACE, Char.ARABIC_INDIC_DIGIT_THREE, "e", "-", "7">>,
     <<"1", Char.LATIN_SMALL_E_ACUTE, "5">>}

PriceInputs ==
    {StrV(s) : s \in PriceTexts}
    \cup {Null, IntV(0), IntV(2), IntV(-3), Nonillion,
          Integer(FALSE, <<"1">> \o Zeros(309)),
          BoolV(TRUE), BoolV(FALSE), JsonFloat(FALSE, <<"2", "5">>, -8),
          JsonFloat(FALSE, <<"3", "7", "5">>, -10), JsonInfinity, JsonNaN,
          MapV(<<>>, EmptyDict), MapV(<<"a">>, [a |-> Null]), ListV(<<>>), ListV(<<IntV(1)>>)}

\* the first second after the year 9999 in UTC, and the first of the year 1
YearTenThousand == Integer(FALSE, <<"2","5","3","4","0","2","3","0","0","8","0","0">>)
YearOne == Integer(TRUE, <<"6","2","1","3","5","5","9","6","8","0","0">>)

TimestampInputs ==
    {Null, IntV(0), IntV(1), IntV(86399), IntV(951782400), IntV(1700000000), IntV(-1),
     IntV(-86400), YearTenThousand, YearOne, Nonillion,
     Integer(TRUE, <<"1">> \o Zeros(30)), Integer(FALSE, <<"1">> \o Zeros(18)),
     Integer(FALSE, TimeTMax), Integer(FALSE, Succ(TimeTMax)),
     Integer(TRUE, Succ(TimeTMax)),
     BoolV(TRUE), BoolV(FALSE),
     JsonFloat(FALSE, <<"1", "7", "0", "0", "0", "0", "0", "0", "0", "0", "5">>, -1),
     JsonFloat(FALSE, <<"8", "6", "3", "9", "9", "9", "9", "9", "9", "9", "9", "6">>, -7),
     JsonFloat(TRUE, <<"5">>, -1), JsonFloat(FALSE, <<"1">>, 30), JsonInfinity, JsonNaN,
     StrV(<<>>), StrV(<<"2", "0", "2", "3">>), MapV(<<>>, EmptyDict), MapV(<<"a">>, [a |-> Null]),
     ListV(<<>>), ListV(<<IntV(1)>>)}

SearchRecords ==
    { MkDict(<<"id", "name", "architecture">>, [id |-> i, name |-> n, architecture |-> a]) :
        i \in {Absent, Null, StrV(<<"A", "b">>)},
        n \in {Absent, Null, StrV(<<"b", "a">>)},
        a \in {Absent, Null, MapV(<<"modality">>, [modality |-> StrV(<<"t", ">", "t">>)]),
               MapV(<<"modality">>, [modality |-> Null])} }
    \cup {MapV(<<"id", "name">>,
               [id |-> StrV(<<Char.LATIN_CAPITAL_E_ACUTE, "B">>),
                name |-> StrV(<<Char.LATIN_CAPITAL_I_DOT_ABOVE, "z", Char.GREEK_CAPITAL_SIGMA>>)])}

SearchQueries ==
    {<<"a">>, <<"B">>, <<"T", ">">>, <<"z">>, <<Char.LATIN_SMALL_E_ACUTE, "b">>,
     <<Char.COMBINING_DOT_ABOVE, "Z", Char.GREEK_SMALL_FINAL_SIGMA>>}

RowRecords ==
    { MkDict(<<"id", "created", "context_length", "architecture", "pricing", "top_provider">>,
             [id |-> StrV(<<"a">>), created |-> c, context_length |-> l,
              architecture |-> a, pricing |-> p, top_provider |-> t]) :
        c \in {Absent, Null, IntV(1700000000), StrV(<<"x">>), Nonillion,
               JsonFloat(FALSE, <<"1", "7", "0", "0", "0", "0", "0", "0", "0", "0", "5">>, -1)},
        l \in {Absent, IntV(0), IntV(131072), StrV(<<"x">>), StrV(<<" ", "1", "2">>),
               JsonInfinity},
        a \in {Absent, Null, MapV(<<"modality">>, [modality |-> StrV(<<"t", ">", "t">>)])},
        p \in {Absent, Null, MapV(<<>>, EmptyDict),
               MapV(<<"prompt", "completion">>,
                    [prompt |-> StrV(PriceQuarter), completion |-> StrV(<<"x">>)]),
               MapV(<<"prompt", "completion">>, [prompt |-> Null, completion |-> IntV(2)]),
               MapV(<<"prompt", "completion">>, [prompt |-> StrV(<<"2", ".", "5", "e", "-", "7">>),
                     completion |-> Nonillion])},
        t \in {Absent, Null, StrV(<<"x">>),
               MapV(<<"max_completion_tokens">>, [max_completion_tokens |-> Null]),
               MapV(<<"max_completion_tokens">>, [max_completion_tokens |-> IntV(4096)])} }

MainIdle ==
    /\ pc = "function"
    /\ argv = <<>>
    /\ args_query = <<>>
    /\ catalog = Unset
    /\ models = Unset
    /\ requests = 0
    /\ response = NoReply
    /\ stdout = <<>>
    /\ stderr = <<>>
    /\ exit_code = -1
    /\ qi = 1
    /\ seen_ids = {}
    /\ all_matches = <<>>
    /\ shown = EmptyDict

InitPure ==
    /\ MainIdle
    /\ called = "none"
    /\ ret = Null
    /\ \/ arg \in [fn : {"format_tokens"}, x : TokenInputs]
       \/ arg \in [fn : {"format_price_dollars"}, x : PriceInputs]
       \/ arg \in [fn : {"format_timestamp"}, x : TimestampInputs, tz : TzOffsets]
       \/ arg \in [fn : {"search_models"},
                   ms : {ListV(l) : l \in SeqsUpTo(SearchRecords, MaxSearchRecords)},
                   q : SearchQueries]
       \/ arg \in [fn : {"build_table_row"}, x : RowRecords, tz : TzOffsets]

\* what a direct call leaves alone
CallFrame ==
    UNCHANGED <<pc, argv, args_query, catalog, models, requests, response, stdout, stderr,
                exit_code, qi, seen_ids, all_matches, shown, arg>>

CallFormatTokens ==
    /\ called = "none" /\ arg.fn = "format_tokens"
    /\ ret' = format_tokens(arg.x)
    /\ called' = arg.fn
    /\ CallFrame

CallFormatPrice ==
    /\ called = "none" /\ arg.fn = "format_price_dollars"
    /\ ret' = format_price_dollars(arg.x)
    /\ called' = arg.fn
    /\ CallFrame

CallFormatTimestamp ==
    /\ called = "none" /\ arg.fn = "format_timestamp"
    /\ ret' = format_timestamp(arg.x, arg.tz)
    /\ called' = arg.fn
    /\ CallFrame

CallSearchModels ==
    /\ called = "none" /\ arg.fn = "search_models"
    /\ ret' = search_models(arg.ms, arg.q)
    /\ called' = arg.fn
    /\ CallFrame

CallBuildTableRow ==
    /\ called = "none" /\ arg.fn = "build_table_row"
    /\ ret' = build_table_row(arg.x, arg.tz)
    /\ called' = arg.fn
    /\ CallFrame

NextPure == CallFormatTokens \/ CallFormatPrice \/ CallFormatTimestamp
            \/ CallSearchModels \/ CallBuildTableRow

SpecPure == InitPure /\ [][NextPure]_vars

(***************************************************************************)
(* Properties of the functions                                             *)
(***************************************************************************)
Searched == called = "search_models"

\* C4: for a non-empty query, search_models returns exactly the records whose
\* id, name or modality contains the query (letter case ignored), in the
\* order of the input.
C4_SearchIsTheFilter ==
    (Searched /\ Len(arg.q) > 0) =>
        /\ ~ret.raised
        /\ ret.value = SelectSeq(arg.ms.l, LAMBDA m : RecordContains(m, arg.q))

\* some field the matcher reads is absent or carries no string
LacksAField(model) ==
    \/ \E key \in {"id", "name"} : key \notin DOMAIN model.m \/ model.m[key].t # "str"
    \/ "architecture" \notin DOMAIN model.m
    \/ model.m["architecture"].t # "map"
    \/ "modality" \notin DOMAIN model.m["architecture"].m
    \/ model.m["architecture"].m["modality"].t # "str"

\* C6: search_models never raises: a missing id, name, architecture or
\* modality counts as the empty string and the other records are still
\* searched.
C6_SearchNeverRaises ==
    (Searched /\ \E i \in 1..Len(arg.ms.l) : LacksAField(arg.ms.l[i])) =>
        /\ ~ret.raised
        /\ \A i \in 1..Len(arg.ms.l) :
             RecordContains(arg.ms.l[i], arg.q)
                 <=> \E k \in 1..Len(ret.value) : ret.value[k] = arg.ms.l[i]

\* the nested mapping is absent or is not a mapping
BadMapping(model, key) == key \notin DOMAIN model.m \/ model.m[key].t # "map"

\* the field is absent, null, or not of the type the formatter converts
BadField(model, key, types) == key \notin DOMAIN model.m \/ model.m[key].t \notin types

\* C7: build_table_row gives nine cells for every record, with "N/A" in the
\* cell of every missing or malformed field, the nested mappings included.
C7_RowNeverAborts ==
    called = "build_table_row" =>
        /\ ~ret.raised
        /\ Len(ret.value) = 9
        /\ BadField(arg.x, "created", {"int", "float", "bool"}) => ret.value[3] = StrV(NA)
        /\ BadField(arg.x, "context_length", {"int", "float", "bool", "str"})
              => ret.value[4] = StrV(NA)
        /\ BadMapping(arg.x, "architecture") =>
              ret.value[5] = StrV(NA) /\ ret.value[6] = StrV(NA)
        /\ BadMapping(arg.x, "pricing") =>
              ret.value[7] = StrV(NA) /\ ret.value[8] = StrV(NA)
        /\ BadMapping(arg.x, "top_provider") => ret.value[9] = StrV(NA)

\* n / 1000 with the fraction dropped
Thousands(n) == CHOOSE q \in 0..n : 1000 * q <= n /\ n < 1000 * (q + 1)

TokenText(n) == IntText(n) \o <<" ", "|", " ">> \o IntText(Thousands(n)) \o <<"k">>

\* the input is an integer count of the range
IsCount(v) == v.t = "int" /\ ~v.neg /\ Len(v.digits) <= 6

\* the count as a number
CountOf(v) == DigitsVal(v.digits)

\* C8 as stated: every count n >= 0 of the range, 0 included, is formatted
\* as "<n> | <n / 1000>k", and "N/A" stands only for an absent or invalid
\* count.
C8_EveryCountFormatted ==
    called = "format_tokens" =>
        /\ IsCount(arg.x) => ret = Ok(TokenText(CountOf(arg.x)))
        /\ ret = Ok(NA) => arg.x.t # "int"

\* C8 amended: every count n >= 1 of the range is formatted as
\* "<n> | <n / 1000>k" with the fraction dropped; a count of 0 and an absent
\* count give "N/A", and so does an int of more than MaxStrDigits digits,
\* which Python does not convert to text; no other int gives "N/A".
C8_PositiveCountFormatted ==
    called = "format_tokens" =>
        /\ (IsCount(arg.x) /\ CountOf(arg.x) >= 1) => ret = Ok(TokenText(CountOf(arg.x)))
        /\ (arg.x = Null \/ arg.x = IntV(0)) => ret = Ok(NA)
        /\ arg.x.t = "int" =>
              ((ret = Ok(NA)) <=> (arg.x = IntV(0) \/ Len(arg.x.digits) > MaxStrDigits))

\* 131072 was formatted as "131072 | 131k"
C8_Witness ==
    /\ called = "format_tokens"
    /\ arg.x = IntV(131072)
    /\ ret = Ok(<<"1", "3", "1", "0", "7", "2", " ", "|", " ", "1", "3", "1", "k">>)

====
